---- MODULE Spec2Model ----
(***************************************************************************)
(* Model of notify.py: the movie release notification script.  A run of    *)
(* main() searches the metadata service, fetches the movie record in the   *)
(* display language and in English, derives the file metrics, composes the *)
(* MarkdownV2 message and sends it to the messaging provider.              *)
(*                                                                         *)
(* Text is a sequence of characters, each character a one-element string;  *)
(* a non-ASCII character and the backquote (U0060) are written by their   *)
(* code point ("U540D").                                                   *)
(* Python's None is the empty sequence and a present value v is <<v>>.     *)
(***************************************************************************)
EXTENDS Integers, Sequences, FiniteSets, TLC

VARIABLES
    language,       \* Config.TMDB_LANGUAGE
    tmdb_language,  \* MovieClient.tmdb.language, switched during the English fetch
    args,           \* the parsed command line
    service,        \* what the metadata service answers: search results, records per language
    pc,             \* position of main()
    err,            \* the exception that ended the run, "" when none
    results,        \* main: results
    details,        \* main: details (None before the fetch)
    details_en,     \* main: details_en (None before the fetch)
    movie_data,     \* main: movie_data (None before it is built)
    message,        \* main: message (None before it is composed)
    search_cache,   \* lru_cache of search_movie: the keys it holds
    details_cache,  \* lru_cache of get_movie_details: the keys it holds
    requests,       \* requests made to the metadata service, in order
    sent,           \* requests made to the messaging provider, in order
    fmt_people,     \* input of a direct format_cast / format_director call
    fmt_cast_out,   \* result of format_cast(fmt_people), None before the call
    fmt_director_out \* result of format_director(fmt_people), None before the call

vars == <<language, tmdb_language, args, service, pc, err, results, details,
          details_en, movie_data, message, search_cache, details_cache,
          requests, sent, fmt_people, fmt_cast_out, fmt_director_out>>

mainVars == <<language, tmdb_language, args, service, pc, err, results, details,
              details_en, movie_data, message, search_cache, details_cache,
              requests, sent>>

fmtVars == <<fmt_people, fmt_cast_out, fmt_director_out>>

----------------------------------------------------------------------------
(* Python values *)

None == <<>>

Some(v) == <<v>>

\* bool(v) for the values the model uses: None and "" are false, a present
\* non-empty value is true.
Truthy(v) == Len(v) > 0

\* a or b
PyOr_first(a, b) == a

PyOr(a, b) == IF Truthy(a) THEN a ELSE b

NoneText == <<"N", "o", "n", "e">>

\* f"{v}" of an optional text
PyStr(v) == IF v = None THEN NoneText ELSE v[1]

----------------------------------------------------------------------------
(* Text helpers: what str.replace, str.join, str.split and the number      *)
(* formats do.                                                             *)

RECURSIVE Replace(_, _, _)
\* text.replace(char, repl) for a one-character pattern
Replace(text, char, repl) ==
    IF text = <<>> THEN <<>>
    ELSE (IF Head(text) = char THEN repl ELSE <<Head(text)>>)
         \o Replace(Tail(text), char, repl)

RECURSIVE Join(_, _)
\* sep.join(items)
Join(sep, items) ==
    IF items = <<>> THEN <<>>
    ELSE IF Len(items) = 1 THEN items[1]
    ELSE items[1] \o sep \o Join(sep, Tail(items))

RECURSIVE SplitFirst(_, _)
\* text.split(char)[0]
SplitFirst(text, char) ==
    IF text = <<>> \/ Head(text) = char THEN <<>>
    ELSE <<Head(text)>> \o SplitFirst(Tail(text), char)

DigitChar(d) == <<"0", "1", "2", "3", "4", "5", "6", "7", "8", "9">>[d + 1]

RECURSIVE IntText(_)
\* f"{n}" of a non-negative integer
IntText(n) ==
    IF n < 10 THEN <<DigitChar(n)>>
    ELSE IntText(n \div 10) \o <<DigitChar(n % 10)>>

\* num / den rounded to the nearest integer, ties to even (den > 0)
RoundHalfEven(num, den) ==
    LET q == num \div den
        r == num % den
    IN  IF 2 * r > den \/ (2 * r = den /\ q % 2 = 1) THEN q + 1 ELSE q

\* f"{x:.2f}" of the non-negative number whose hundredths are h
Fixed2(h) ==
    IntText(h \div 100) \o <<".">> \o <<DigitChar((h % 100) \div 10), DigitChar(h % 10)>>

----------------------------------------------------------------------------
(* MessageFormatter *)

special_chars ==
    <<"_", "*", "[", "]", "(", ")", "~", "U0060", ">", "#", "+", "-", "=", "|",
      "{", "}", ".", "!">>

RECURSIVE EscapeFrom(_, _)
\* the loop of escape_special_chars from the i-th special character on
EscapeFrom(text, i) ==
    IF i > Len(special_chars) THEN text
    ELSE EscapeFrom(Replace(text, special_chars[i], <<"\\", special_chars[i]>>), i + 1)

escape_special_chars(text) == EscapeFrom(text, 1)

CommaSpace == <<",", " ">>

max_count == 3

RECURSIVE CastLoop(_, _, _)
\* the loop of format_cast: the names collected from cast, count so far
CastLoop(cast, cast_list, count) ==
    IF cast = <<>> \/ count >= max_count THEN cast_list
    ELSE CastLoop(Tail(cast), Append(cast_list, Head(cast).name), count + 1)

format_cast(cast) == Join(CommaSpace, CastLoop(cast, <<>>, 0))

RECURSIVE DirectorLoop(_, _, _)
\* the loop of format_director
DirectorLoop(crew, directors, count) ==
    IF crew = <<>> \/ count >= max_count THEN directors
    ELSE IF Head(crew).job = "Director"
         THEN DirectorLoop(Tail(crew), Append(directors, Head(crew).name), count + 1)
         ELSE DirectorLoop(Tail(crew), directors, count)

RECURSIVE DirectorLoop_nofilter(_, _, _)
DirectorLoop_nofilter(crew, directors, count) ==
    IF crew = <<>> \/ count >= max_count THEN directors
    ELSE DirectorLoop_nofilter(Tail(crew), Append(directors, Head(crew).name), count + 1)

format_director_nofilter(crew) == Join(CommaSpace, DirectorLoop_nofilter(crew, <<>>, 0))

format_director(crew) == Join(CommaSpace, DirectorLoop(crew, <<>>, 0))

GiB == <<" ", "G", "i", "B">>

Minutes == <<" ", "U5206", "U949F">>

Mbps == <<" ", "M", "b", "p", "s">>

\* format_file_info raises ZeroDivisionError exactly when runtime * 60 is 0.
FileInfoRaises(file_size, runtime) == runtime * 60 = 0

\* format_file_info(file_size, runtime) when it returns.  The quotients are
\* reduced so that the arithmetic stays within 32 bits:
\*   file_size / 1024**3 * 100                   = file_size * 25 / 2**28
\*   file_size * 8 / (runtime*60) / 1e6 * 100    = file_size / (runtime * 75000)
format_file_info(file_size, runtime) ==
    [size     |-> Fixed2(RoundHalfEven(file_size * 25, 268435456)) \o GiB,
     duration |-> IntText(runtime) \o Minutes,
     bitrate  |-> Fixed2(RoundHalfEven(file_size, runtime * 75000)) \o Mbps]

LabelTitle == <<"*", "U540D", "U79F0", "*", "UFF1A">>

LabelDirector == <<"*", "U5BFC", "U6F14", "*", "UFF1A">>

LabelStarring == <<"*", "U6F14", "U5458", "*", "UFF1A">>

LabelGenres == <<"*", "U7C7B", "U578B", "*", "UFF1A">>

LabelTorrent == <<"*", "U6807", "U9898", "*", "UFF1A">>

LabelInfo == <<"*", "U4FE1", "U606F", "*", "UFF1A">>

LabelOverview == <<"\n">>

\* the link text of the poster hyperlink: eleven zero-width spaces in brackets
LinkText ==
    <<"[", "U200B", "U200B", "U200B", "U200B", "U200B", "U200B", "U200B",
      "U200B", "U200B", "U200B", "U200B", "]">>

\* create_message leaves template unbound unless language == "zh-CN"
TemplateBound(lang) == lang = "zh-CN"

\* parts[0], the header
HeaderPart(md) ==
    <<"\\", "#">> \o md.indexer \o <<" ", "\\", "#">> \o md.group \o <<"\n">>

\* the (label, content) pairs of the zh-CN template
Template(md) ==
    << <<LabelTitle, md.title \o <<" ", "\\", "(">> \o md.year \o <<"\\", ")">> >>,
       <<LabelDirector, escape_special_chars(md.director)>>,
       <<LabelStarring, escape_special_chars(md.starring)>>,
       <<LabelGenres, Join(CommaSpace, md.genres)>>,
       <<LabelTorrent, <<"_", "_">> \o escape_special_chars(md.torrent_name) \o <<"_", "_">> >>,
       <<LabelInfo, escape_special_chars(md.size) \o <<" ", "/", " ">>
                    \o escape_special_chars(md.duration) \o <<" ", "/", " ">>
                    \o escape_special_chars(md.bitrate)
                    \o LinkText \o <<"(">> \o md.poster_url \o <<")">> >>,
       <<LabelOverview, <<">", " ">> \o escape_special_chars(md.overview)>> >>

\* parts, before the final join
MessageParts(md) ==
    <<HeaderPart(md)>> \o [i \in 1..Len(Template(md)) |-> Template(md)[i][1] \o Template(md)[i][2]]

\* create_message(movie_data, "zh-CN")
create_message(md) == Join(<<"\n">>, MessageParts(md))

----------------------------------------------------------------------------
(* The inputs of a run: the command line, the configuration and what the   *)
(* metadata service holds.                                                  *)

Languages == {"zh-CN", "en_US"}

Person(name, job) == [name |-> name, job |-> job]

Titles == { <<"a", "b">>, <<"a", ".", "b">> }

Runtimes == {0, 120}

Casts ==
    { <<>>,
      <<Person(<<"A">>, "Actor"), Person(<<"B", ".">>, "Actor"),
        Person(<<"C">>, "Actor"), Person(<<"D">>, "Actor")>> }

Crews ==
    { <<Person(<<"P">>, "Producer")>>,
      <<Person(<<"P">>, "Producer"), Person(<<"K">>, "Director"),
        Person(<<"W">>, "Writer"), Person(<<"L", "_">>, "Director")>> }

GenreLists == { <<>>, << [name |-> <<"g", "-">>], [name |-> <<"h">>] >> }

\* The record the service holds for one request language.
Record(title, runtime, cast, crew, genres, overview, backdrop, poster) ==
    [title |-> title, release_date |-> <<"1", "9", "9", "9", "-", "0", "3", "-", "3", "1">>,
     overview |-> overview, genres |-> genres, runtime |-> runtime,
     imdb_id |-> <<"t", "t", "1">>,
     backdrop_path |-> backdrop, poster_path |-> poster,
     credits |-> [cast |-> cast, crew |-> crew]]

Services ==
    { [search_results |-> sr,
       db |-> [l \in Languages |->
                 IF l = "en_US"
                 THEN Record(t, rt, c, cr, g, oe, b, p)
                 ELSE Record(t, rt, c, cr, g, oz, Some(<<"/", "z">>), Some(<<"/", "q">>))]] :
      sr \in { <<>>, <<[id |-> 7]>>, <<[id |-> 7], [id |-> 8]>> },
      t \in Titles, rt \in Runtimes, c \in Casts, cr \in Crews, g \in GenreLists,
      oz \in { <<>>, <<"z", ".">> }, oe \in { <<>>, <<"e", "!">> },
      b \in { None, Some(<<"/", "b">>) }, p \in { None, Some(<<"/", "p">>) } }

Args ==
    { [torrent_name |-> <<"T", ".", "1">>, indexer_name |-> <<"i", "_", "x">>,
       group_name |-> <<"G", "-">>, release_year |-> <<"1", "9", "9", "9">>,
       parsed_title |-> <<"a", "b">>, file_size |-> 52428800] }

\* the state of main() before parse_args returns, with no direct formatter call
MainInit ==
    /\ language \in Languages
    /\ tmdb_language = language
    /\ args \in Args
    /\ service \in Services
    /\ pc = "start"
    /\ err = ""
    /\ results = <<>>
    /\ details = None
    /\ details_en = None
    /\ movie_data = None
    /\ message = None
    /\ search_cache = {}
    /\ details_cache = {}
    /\ requests = <<>>
    /\ sent = <<>>

Init ==
    /\ MainInit
    /\ fmt_people = <<>>
    /\ fmt_cast_out = None
    /\ fmt_director_out = None

----------------------------------------------------------------------------
(* MovieClient *)

\* the lru_cache key of search_movie(title, year)
SearchKey(title, year) == [title |-> title, year |-> year]

\* the lru_cache key of get_movie_details: get_movie_data passes no language,
\* get_english_details passes language="en_US"
DetailsKey(tmdb_id, lang_arg) == [tmdb_id |-> tmdb_id, language |-> lang_arg]

\* the language the request of get_movie_details(tmdb_id, lang_arg) is made in
RequestLanguage(lang_arg) == IF Truthy(lang_arg) THEN lang_arg[1] ELSE tmdb_language

\* tmdb.language after get_movie_details: restored after the request, but left
\* switched when the request raises (there is no finally)
LanguageAfter(lang_arg, ok) ==
    IF Truthy(lang_arg) /\ ~ok THEN lang_arg[1] ELSE tmdb_language

\* movie.details(tmdb_id, append_to_response="credits,images")
MovieDetails(tmdb_id, lang) ==
    [id |-> tmdb_id] @@ service.db[lang]

\* main: if not results
NoResults_never(res) == FALSE

NoResults(res) == ~Truthy(res)

Fail(e) == pc' = "failed" /\ err' = e

----------------------------------------------------------------------------
(* main() *)

\* lines 206-208: search_movie (a cache miss: the first call of the run), then
\* the check of the result
Search ==
    /\ pc = "start"
    /\ SearchKey(args.parsed_title, args.release_year) \notin search_cache
    /\ requests' = Append(requests, [kind |-> "search", tmdb_id |-> 0, language |-> tmdb_language])
    /\ \E ok \in BOOLEAN :
         IF ~ok
         THEN /\ Fail("TransportError")
              /\ UNCHANGED <<results, search_cache>>
         ELSE /\ results' = service.search_results
              /\ search_cache' = search_cache \cup {SearchKey(args.parsed_title, args.release_year)}
              /\ IF NoResults(service.search_results)
                 THEN Fail("ValueError")
                 ELSE pc' = "searched" /\ err' = err
    /\ UNCHANGED <<language, tmdb_language, args, service, details, details_en,
                   movie_data, message, details_cache, sent, fmtVars>>

\* get_movie_details(tmdb_id, lang_arg), storing the record in `into`:
\* a cached key is answered from the cache, any other makes one request
GetMovieDetails(tmdb_id, lang_arg, next_pc) ==
    IF DetailsKey(tmdb_id, lang_arg) \in details_cache
    THEN /\ pc' = next_pc
         /\ UNCHANGED <<err, requests, details_cache, tmdb_language>>
    ELSE /\ requests' = Append(requests, [kind |-> "details", tmdb_id |-> tmdb_id,
                                          language |-> RequestLanguage(lang_arg)])
         /\ \E ok \in BOOLEAN :
              /\ tmdb_language' = LanguageAfter(lang_arg, ok)
              /\ IF ok
                 THEN /\ details_cache' = details_cache \cup {DetailsKey(tmdb_id, lang_arg)}
                      /\ pc' = next_pc /\ err' = err
                 ELSE /\ Fail("TransportError")
                      /\ UNCHANGED details_cache

\* lines 210-211: results[0].id and get_movie_data
GetMovieData ==
    /\ pc = "searched"
    /\ IF results = <<>>
       THEN /\ Fail("IndexError")
            /\ UNCHANGED <<requests, details_cache, tmdb_language, details>>
       ELSE /\ GetMovieDetails(results[1].id, None, "fetched")
            /\ details' = IF pc' = "fetched"
                          THEN Some(MovieDetails(results[1].id, RequestLanguage(None)))
                          ELSE details
    /\ UNCHANGED <<language, args, service, results, details_en, movie_data, message,
                   search_cache, sent, fmtVars>>

\* line 212: get_english_details
GetEnglishDetails ==
    /\ pc = "fetched"
    /\ GetMovieDetails(results[1].id, Some("en_US"), "fetched_en")
    /\ details_en' = IF pc' = "fetched_en"
                     THEN Some(MovieDetails(results[1].id, RequestLanguage(Some("en_US"))))
                     ELSE details_en
    /\ UNCHANGED <<language, args, service, results, details, movie_data, message,
                   search_cache, sent, fmtVars>>

PosterBase ==
    <<"h", "t", "t", "p", "s", ":", "/", "/", "i", "m", "a", "g", "e", ".", "t",
      "m", "d", "b", ".", "o", "r", "g", "/", "t", "/", "p", "/", "o", "r", "i",
      "g", "i", "n", "a", "l">>

\* line 229: the f-string of poster_url
PosterUrl(d_en) == PosterBase \o PyStr(PyOr(d_en.backdrop_path, d_en.poster_path))

\* lines 216-230: movie_data
MovieData(a, d, d_en, info) ==
    [title |-> d.title,
     year |-> SplitFirst(d.release_date, "-"),
     overview |-> PyOr(d.overview, d_en.overview),
     genres |-> [i \in 1..Len(d.genres) |-> d.genres[i].name],
     director |-> format_director(d.credits.crew),
     starring |-> format_cast(d.credits.cast),
     size |-> info.size,
     duration |-> info.duration,
     bitrate |-> info.bitrate,
     indexer |-> a.indexer_name,
     group |-> a.group_name,
     torrent_name |-> a.torrent_name,
     poster_url |-> PosterUrl(d_en)]

\* lines 215-230: format_file_info, then movie_data
Prepare ==
    /\ pc = "fetched_en"
    /\ IF FileInfoRaises(args.file_size, details[1].runtime)
       THEN /\ Fail("ZeroDivisionError")
            /\ UNCHANGED movie_data
       ELSE /\ movie_data' = Some(MovieData(args, details[1], details_en[1],
                                   format_file_info(args.file_size, details[1].runtime)))
            /\ pc' = "prepared" /\ err' = err
    /\ UNCHANGED <<language, tmdb_language, args, service, results, details, details_en,
                   message, search_cache, details_cache, requests, sent, fmtVars>>

\* line 233: create_message; with any language but zh-CN the use of template
\* on line 154 raises UnboundLocalError
Compose ==
    /\ pc = "prepared"
    /\ IF TemplateBound(language)
       THEN /\ message' = Some(create_message(movie_data[1]))
            /\ pc' = "composed" /\ err' = err
       ELSE /\ Fail("UnboundLocalError")
            /\ UNCHANGED message
    /\ UNCHANGED <<language, tmdb_language, args, service, results, details, details_en,
                   movie_data, search_cache, details_cache, requests, sent, fmtVars>>

\* lines 234-241: notifier.send: one GET, then raise_for_status
Send ==
    /\ pc = "composed"
    /\ sent' = Append(sent, message[1])
    /\ \E ok \in BOOLEAN :
         IF ok THEN pc' = "done" /\ err' = err ELSE Fail("HTTPError")
    /\ UNCHANGED <<language, tmdb_language, args, service, results, details, details_en,
                   movie_data, message, search_cache, details_cache, requests, fmtVars>>

Next == Search \/ GetMovieData \/ GetEnglishDetails \/ Prepare \/ Compose \/ Send

Spec == Init /\ [][Next]_vars

----------------------------------------------------------------------------
(* Direct calls of format_cast and format_director on bounded sequences.   *)

MaxPeople == 5

Names == { <<"A">>, <<"B">> }

Jobs == {"Director", "Co-Director"}

People == { Person(n, j) : n \in Names, j \in Jobs }

PeopleSeqs == UNION { [1..n -> People] : n \in 0..MaxPeople }

FmtInit ==
    /\ language = "zh-CN"
    /\ tmdb_language = "zh-CN"
    /\ args = CHOOSE a \in Args : TRUE
    /\ service = CHOOSE sv \in Services : sv.search_results = <<>>
    /\ pc = "idle"
    /\ err = ""
    /\ results = <<>>
    /\ details = None
    /\ details_en = None
    /\ movie_data = None
    /\ message = None
    /\ search_cache = {}
    /\ details_cache = {}
    /\ requests = <<>>
    /\ sent = <<>>
    /\ fmt_people \in PeopleSeqs
    /\ fmt_cast_out = None
    /\ fmt_director_out = None

FormatCast ==
    /\ fmt_cast_out = None
    /\ fmt_cast_out' = Some(format_cast(fmt_people))
    /\ UNCHANGED <<mainVars, fmt_people, fmt_director_out>>

FormatDirector ==
    /\ fmt_director_out = None
    /\ fmt_director_out' = Some(format_director(fmt_people))
    /\ UNCHANGED <<mainVars, fmt_people, fmt_cast_out>>

FmtNext == FormatCast \/ FormatDirector

SpecFmt == FmtInit /\ [][FmtNext]_vars

----------------------------------------------------------------------------
(* Helpers of the properties *)

Min(a, b) == IF a < b THEN a ELSE b

\* s occurs in t
Contains(t, s) ==
    \E i \in 1..(Len(t) - Len(s) + 1) : SubSeq(t, i, i + Len(s) - 1) = s

\* t ends with s
EndsWith(t, s) ==
    Len(s) <= Len(t) /\ SubSeq(t, Len(t) - Len(s) + 1, Len(t)) = s

IsSpecial(c) == \E i \in 1..Len(special_chars) : special_chars[i] = c

RECURSIVE EscapedOnce(_)
\* text with one backslash put before each special character, in one pass
EscapedOnce(text) ==
    IF text = <<>> THEN <<>>
    ELSE (IF IsSpecial(Head(text)) THEN <<"\\", Head(text)>> ELSE <<Head(text)>>)
         \o EscapedOnce(Tail(text))

DetailsRequests == SelectSeq(requests, LAMBDA r : r.kind = "details")

\* the search of this run returned (it did not raise)
SearchReturned == search_cache # {}

----------------------------------------------------------------------------
(* Properties *)

\* C1: when search_movie returns an empty result, the run ends with the
\* not-found error (the ValueError of line 208), and no details request and
\* no send is made.
C1_NoResultsFatal ==
    (SearchReturned /\ results = <<>>) =>
        /\ pc = "failed" /\ err = "ValueError"
        /\ DetailsRequests = <<>>
        /\ details = None /\ details_en = None
        /\ sent = <<>>

C1_Witness == SearchReturned /\ results = <<>> /\ pc = "failed"

\* the message with every raw value escaped once before the markup is put
\* around it
FullyEscapedMessage(md) ==
    Join(<<"\n">>,
      << <<"\\", "#">> \o EscapedOnce(md.indexer) \o <<" ", "\\", "#">>
             \o EscapedOnce(md.group) \o <<"\n">>,
         LabelTitle \o EscapedOnce(md.title) \o <<" ", "\\", "(">>
             \o EscapedOnce(md.year) \o <<"\\", ")">>,
         LabelDirector \o EscapedOnce(md.director),
         LabelStarring \o EscapedOnce(md.starring),
         LabelGenres \o Join(CommaSpace, [i \in 1..Len(md.genres) |-> EscapedOnce(md.genres[i])]),
         LabelTorrent \o <<"_", "_">> \o EscapedOnce(md.torrent_name) \o <<"_", "_">>,
         LabelInfo \o EscapedOnce(md.size) \o <<" ", "/", " ">> \o EscapedOnce(md.duration)
             \o <<" ", "/", " ">> \o EscapedOnce(md.bitrate)
             \o LinkText \o <<"(">> \o md.poster_url \o <<")">>,
         LabelOverview \o <<">", " ">> \o EscapedOnce(md.overview) >>)

\* C2: in the composed message every raw dynamic value (indexer, group,
\* title, year, director, cast, each genre, torrent name, size, duration,
\* bitrate, overview) appears escaped exactly once.
C2_EveryValueEscapedOnce ==
    message # None => message[1] = FullyEscapedMessage(movie_data[1])

\* C3: the poster path is the English record's backdrop_path when present,
\* otherwise its poster_path; with neither, the hyperlink of the info line is
\* left out of the message.
C3_PosterFallback ==
    message # None =>
        LET en == details_en[1]
            url == movie_data[1].poster_url
        IN  /\ en.backdrop_path # None => url = PosterBase \o en.backdrop_path[1]
            /\ (en.backdrop_path = None /\ en.poster_path # None) =>
                   url = PosterBase \o en.poster_path[1]
            /\ (en.backdrop_path = None /\ en.poster_path = None) =>
                   ~Contains(message[1], LinkText)

\* C4: with runtime 0 the metrics computation is guarded: the run does not
\* end in a division-by-zero error.
C4_ZeroRuntimeGuarded ==
    (details # None /\ details[1].runtime = 0) => err # "ZeroDivisionError"

\* the label lines of the message, in order, without the fields whose value
\* is empty
NonEmptyFieldParts(md) ==
    LET empty == <<FALSE, md.director = <<>>, md.starring = <<>>, md.genres = <<>>,
                   md.torrent_name = <<>>, FALSE, md.overview = <<>> >>
        RECURSIVE Keep(_)
        Keep(i) == IF i > Len(Template(md)) THEN <<>>
                   ELSE (IF empty[i] THEN <<>>
                         ELSE <<Template(md)[i][1] \o Template(md)[i][2]>>) \o Keep(i + 1)
    IN  Keep(1)

\* C5: the message lists hashtags, title+year, director, starring, genres,
\* torrent name, info line, synopsis in this order, and a field whose value
\* is empty has no label line.
C5_OrderAndEmptyOmitted ==
    message # None =>
        message[1] = Join(<<"\n">>, <<HeaderPart(movie_data[1])>>
                                     \o NonEmptyFieldParts(movie_data[1]))

\* C6: composition succeeds for every value of the language setting: once
\* create_message has run on the prepared data there is a message.
C6_EveryLanguageComposes ==
    (movie_data # None /\ pc # "prepared") => message # None

\* C7: the overview of the message is the display-language record's overview
\* when non-empty and the English record's otherwise, so it is empty only if
\* both are empty.
C7_OverviewFallback ==
    movie_data # None =>
        LET primary == service.db[language].overview
            english == service.db["en_US"].overview
            used == movie_data[1].overview
        IN  /\ used = (IF primary # <<>> THEN primary ELSE english)
            /\ used = <<>> => (primary = <<>> /\ english = <<>>)
            /\ message # None =>
                   EndsWith(message[1], <<"\n", ">", " ">> \o EscapedOnce(used))

C7_Witness ==
    /\ message # None
    /\ service.db[language].overview = <<>>
    /\ service.db["en_US"].overview # <<>>

\* C8: format_cast gives the names of the first min(3, n) cast members in
\* order; format_director gives the names of the first min(3, k) members
\* whose job is exactly "Director", in crew order; both give the empty
\* string when no name is selected.
C8_CastDirectorCap ==
    LET names(ps) == [i \in 1..Min(3, Len(ps)) |-> ps[i].name]
        directors == SelectSeq(fmt_people, LAMBDA x : x.job = "Director")
    IN  /\ fmt_cast_out # None =>
               /\ fmt_cast_out[1] = Join(CommaSpace, names(fmt_people))
               /\ fmt_people = <<>> => fmt_cast_out[1] = <<>>
        /\ fmt_director_out # None =>
               /\ fmt_director_out[1] = Join(CommaSpace, names(directors))
               /\ directors = <<>> => fmt_director_out[1] = <<>>

C8_Witness ==
    /\ fmt_cast_out # None /\ Len(fmt_people) > 3
    /\ fmt_director_out # None
    /\ Len(SelectSeq(fmt_people, LAMBDA x : x.job = "Director")) > 3
    /\ fmt_people[1].job # "Director"

\* C10: the metadata service is asked at most once per (title, year) and at
\* most once per (movie id, request language).
C10_OneRequestPerKey ==
    \A i, j \in DOMAIN requests :
        (i # j /\ requests[i].kind = requests[j].kind)
            => ~(/\ requests[i].tmdb_id = requests[j].tmdb_id
                 /\ requests[i].language = requests[j].language)

====
